---------------------------- MODULE Spec2Model ----------------------------
(***************************************************************************)
(* Model of src/app.py, the Venlo weather dashboard: one Streamlit script  *)
(* (main) that is re-executed on every interaction, a memoized HTTP fetch  *)
(* (fetch_weather_data under st.cache_data(ttl=600)), the reshaping of the *)
(* current/hourly/daily sections, and the two lookup functions.            *)
(*                                                                         *)
(* Conventions.                                                            *)
(*  - A Python dict is a function whose DOMAIN is the set of its keys.     *)
(*  - A Python list is a sequence.                                         *)
(*  - Numbers of the payload are integers.  Bearings are held in quarter   *)
(*    degrees (11.25 degrees = 45, 22.5 degrees = 90, 360 degrees = 1440), *)
(*    which keeps every half-sector tie exact.                             *)
(*  - A timestamp string is the sequence of its characters.                *)
(***************************************************************************)
EXTENDS Integers, Sequences, FiniteSets, TLC

VARIABLES
    now,            \* wall clock, seconds
    cache,          \* st.cache_data store of fetch_weather_data: set of entries
    rerun,          \* st.rerun() was requested and the next script run is pending
    data,           \* what fetch_weather_data returned to the last script run
    current,        \* the current-conditions dict after the legacy fix-up
    metrics,        \* the values main read from current (temp, humidity, wind ...)
    df_hourly,      \* rows of the hourly table
    df_daily,       \* rows of the daily table
    rendered,       \* the elements the last script run put on the page
    exception,      \* the exception that ended the last script run, or "none"
    netOutcome,     \* the HTTP request of the last script run: "none", "ok", "failed"
    netCalls,       \* number of HTTP requests issued so far
    runs,           \* number of script runs that reached the fetch
    lastNetTime,    \* time of the latest fetch that went to the network, -1 before it
    lastNetValue,   \* what that fetch returned
    refreshedSince, \* the refresh button was pressed after that fetch
    viaRefresh      \* the last script run was the rerun a refresh asked for

vars == <<now, cache, rerun, data, current, metrics, df_hourly, df_daily, rendered,
          exception, netOutcome, netCalls, runs, lastNetTime, lastNetValue,
          refreshedSince, viaRefresh>>

-----------------------------------------------------------------------------
(* Bounds of the model *)

\* The clock advances in steps of ClockStep seconds, up to MaxTime.
ClockStep == 60
MaxTime == 720
\* Script runs per behaviour.
MaxRuns == 4
\* Distinct successful payloads the upstream API may answer with over time.
MaxVersion == 2
\* Longest hourly and daily sections the upstream API answers with.
MaxHourly == 72
MaxDaily == 7
\* Legacy field values range over 0..MaxLegacyValue.
MaxLegacyValue == 2
\* Bearings checked: 0 .. MaxBearing quarter degrees (two full turns and a bit).
MaxBearing == 2925

-----------------------------------------------------------------------------
(* Program constants *)

\* VENLO_LAT = 51.3700, VENLO_LON = 6.1681, in units of 0.0001 degree
VENLO_LAT == 513700
VENLO_LON == 61681
\* @st.cache_data(ttl=600)
TTL == 600
\* the [:48] slices of the hourly arrays
HourlyLimit == 48
\* Python's None where a number is expected (payload numbers are >= 0)
Unknown == -1
\* Python's None where a dict is expected
None == [none |-> TRUE]
\* {}
EmptyDict == [k \in {} |-> 0]

-----------------------------------------------------------------------------
(* Python helpers *)

Min(a, b) == IF a < b THEN a ELSE b

\* d.get(k, default)
Get(d, k, default) == IF k \in DOMAIN d THEN d[k] ELSE default

\* d[k] = v on a dict
Put(d, k, v) == [x \in (DOMAIN d) \cup {k} |-> IF x = k THEN v ELSE d[x]]

\* s[a:b] for 0 <= a <= b
Slice(s, a, b) == SubSeq(s, Min(a, Len(s)) + 1, Min(b, Len(s)))

\* round(num / den) for num >= 0, den > 0 and even: Python 3 rounds a tie to
\* the even neighbour
RoundHalfEven(num, den) ==
    LET fl == num \div den
        r2 == 2 * (num % den)
    IN  IF r2 < den THEN fl
        ELSE IF r2 > den THEN fl + 1
        ELSE IF fl % 2 = 0 THEN fl ELSE fl + 1

-----------------------------------------------------------------------------
(* Lookup tables *)

directions == <<"N", "NNO", "NO", "ONO", "O", "OZO", "ZO", "ZZO",
                "Z", "ZZW", "ZW", "WZW", "W", "WNW", "NW", "NNW">>

\* A wrap that saturates at the last label instead of going round.
DirectionIndexClamped(degrees) == Min(RoundHalfEven(degrees, 90), 15)

\* idx = round(degrees / 22.5) % 16, degrees in quarter degrees
DirectionIndex(degrees) == RoundHalfEven(degrees, 90) % 16

direction_to_text(degrees) == directions[DirectionIndex(degrees) + 1]

\* codes.get(code, fallback); the glyphs are named by what they show
get_weather_emoji(code) ==
    IF code = 0 THEN "sun"
    ELSE IF code = 1 THEN "sun_small_cloud"
    ELSE IF code = 2 THEN "sun_behind_cloud"
    ELSE IF code = 3 THEN "cloud"
    ELSE IF code \in {45, 48} THEN "fog"
    ELSE IF code \in {51, 53, 55, 61, 63, 65} THEN "rain"
    ELSE IF code \in {66, 67, 85, 86} THEN "snow_cloud"
    ELSE IF code \in {71, 73, 75, 77} THEN "snowflake"
    ELSE IF code \in {80, 81, 82} THEN "sun_rain"
    ELSE IF code \in {95, 96, 99} THEN "thunder"
    ELSE "thermometer"

-----------------------------------------------------------------------------
(* Weather client: fetch_weather_data under @st.cache_data(ttl=600) *)

\* What the network gives one request: a failure (connection error, timeout
\* after 10 s, non-success status: each a requests.RequestException) or the
\* parsed JSON of a successful response.
Failure == [ok |-> FALSE, json |-> EmptyDict]
Success(json) == [ok |-> TRUE, json |-> json]

\* An except clause that reports the failure and raises it again.
FetchBodyReraising(response) ==
    IF response.ok
    THEN [value |-> response.json, raised |-> FALSE]
    ELSE [value |-> None, raised |-> TRUE]

\* The body of fetch_weather_data: the request inside try/except; a
\* RequestException is reported with st.error and None is returned.
FetchBody(response) ==
    IF response.ok
    THEN [value |-> response.json, raised |-> FALSE]
    ELSE [value |-> None, raised |-> FALSE]

\* A freshness window half as long.
IsFreshHalfWindow(entry) == 2 * (now - entry.stored) < TTL

\* ttl=600: an entry is served while it is younger than ttl seconds
IsFresh(entry) == now - entry.stored < TTL

\* A store that memoizes only successful results.
CacheStoreSkippingNone(key, value) ==
    IF value = None
    THEN {e \in cache : e.key # key}
    ELSE {e \in cache : e.key # key} \cup {[key |-> key, value |-> value, stored |-> now]}

\* st.cache_data memoizes whatever the function returned, None included,
\* under the call's arguments
CacheStore(key, value) ==
    {e \in cache : e.key # key} \cup {[key |-> key, value |-> value, stored |-> now]}

\* A clear() that leaves the entries in place.
CacheClearNothing == cache

\* fetch_weather_data.clear()
CacheClear == {}

\* One call fetch_weather_data(lat, lon); response is what the network would
\* answer if it were asked.  network: whether (and how) the network was used.
fetch_weather_data(lat, lon, response) ==
    LET key == <<lat, lon>>
        hits == {e \in cache : e.key = key /\ IsFresh(e)}
    IN  IF hits # {}
        THEN [value |-> (CHOOSE e \in hits : TRUE).value, network |-> "none",
              raised |-> FALSE, store |-> cache]
        ELSE LET r == FetchBody(response)
             IN  [value |-> r.value,
                  network |-> IF response.ok THEN "ok" ELSE "failed",
                  raised |-> r.raised,
                  store |-> IF r.raised THEN cache ELSE CacheStore(key, r.value)]

-----------------------------------------------------------------------------
(* Shape normalizer: main, lines 128-137 and the reads of lines 146-157 *)

\* current = data.get("current") or data.get("current_weather", {})
\* (a missing or empty "current" is falsy and gives way to "current_weather")
CurrentSection(d) ==
    IF "current" \in DOMAIN d /\ DOMAIN d["current"] # {}
    THEN d["current"]
    ELSE Get(d, "current_weather", EmptyDict)

\* if "windspeed" in current and "wind_speed_10m" not in current: copy the
\* legacy fields under the modern names; humidity becomes None
Normalize(cur) ==
    IF "windspeed" \in DOMAIN cur /\ "wind_speed_10m" \notin DOMAIN cur
    THEN LET c1 == Put(cur, "wind_speed_10m", cur["windspeed"])
             c2 == Put(c1, "wind_direction_10m", Get(cur, "winddirection", 0))
             c3 == Put(c2, "temperature_2m", Get(cur, "temperature", 0))
             c4 == Put(c3, "weather_code", Get(cur, "weathercode", 0))
         IN  Put(c4, "relative_humidity_2m", Unknown)
    ELSE cur

\* x or 0, for a number or None
OrZero(x) == IF x = Unknown \/ x = 0 THEN 0 ELSE x

\* weather_code, temp, humidity, wind_speed, wind_dir as main reads them, and
\* the two texts derived from them
ReadCurrent(cur) ==
    LET wind_dir == Get(cur, "wind_direction_10m", 0)
        weather_code == Get(cur, "weather_code", 0)
    IN  [temp |-> Get(cur, "temperature_2m", 0),
         humidity |-> OrZero(Get(cur, "relative_humidity_2m", Unknown)),
         wind_speed |-> Get(cur, "wind_speed_10m", 0),
         wind_dir |-> wind_dir,
         wind_text |-> direction_to_text(wind_dir),
         weather_code |-> weather_code,
         emoji |-> get_weather_emoji(weather_code)]

\* What the page shows of the current conditions before any run.
NoMetrics ==
    [temp |-> Unknown, humidity |-> Unknown, wind_speed |-> Unknown,
     wind_dir |-> Unknown, wind_text |-> "", weather_code |-> Unknown, emoji |-> ""]


-----------------------------------------------------------------------------
(* Tabular projection: main, tab1 (lines 204-238) and tab2 (lines 240-277) *)

\* pd.DataFrame(dict of lists) raises ValueError ("All arrays must be of the
\* same length") unless every column has the same length
SameLength(lens) == \A i, j \in 1..Len(lens) : lens[i] = lens[j]

\* A horizon one entry short.
HourlySliceShort(list) == Slice(list, 0, HourlyLimit - 1)

\* list[:48]
HourlySlice(list) == Slice(list, 0, HourlyLimit)

\* t[11:16] if len(t) > 10 else t
TimeOfDay(t) == IF Len(t) > 10 THEN Slice(t, 11, 16) ELSE t

\* t[:10]
DateOf(t) == Slice(t, 0, 10)

\* df_hourly: the six columns and the DataFrame built from them
HourlyFrame(hourly) ==
    LET times == HourlySlice(Get(hourly, "time", <<>>))
        temps == HourlySlice(Get(hourly, "temperature_2m", <<>>))
        wind_speeds == HourlySlice(Get(hourly, "wind_speed_10m", <<>>))
        wind_dirs == HourlySlice(Get(hourly, "wind_direction_10m", <<>>))
        precip_probs == HourlySlice(Get(hourly, "precipitation_probability",
                                        [i \in 1..48 |-> Unknown]))
        tijd == [i \in 1..Len(times) |-> TimeOfDay(times[i])]
        datum == [i \in 1..Len(times) |-> DateOf(times[i])]
        richting == [i \in 1..Len(wind_dirs) |-> direction_to_text(wind_dirs[i])]
    IN  IF SameLength(<<Len(tijd), Len(datum), Len(temps), Len(wind_speeds),
                        Len(richting), Len(precip_probs)>>)
        THEN [raised |-> FALSE,
              rows |-> [i \in 1..Len(times) |->
                          [Tijd |-> tijd[i], Datum |-> datum[i], Temp |-> temps[i],
                           Wind |-> wind_speeds[i], Windrichting |-> richting[i],
                           Neerslag |-> precip_probs[i]]]]
        ELSE [raised |-> TRUE, rows |-> <<>>]

\* chart_df: Tijd, temperature and wind speed of the same slices
HourlyChartFrame(hourly) ==
    LET times == HourlySlice(Get(hourly, "time", <<>>))
        temps == HourlySlice(Get(hourly, "temperature_2m", <<>>))
        wind_speeds == HourlySlice(Get(hourly, "wind_speed_10m", <<>>))
    IN  [raised |-> ~SameLength(<<Len(times), Len(temps), Len(wind_speeds)>>)]

\* df_daily: the six columns, untruncated, and the DataFrame built from them
DailyFrame(daily) ==
    LET daily_times == Get(daily, "time", <<>>)
        daily_max == Get(daily, "temperature_2m_max", <<>>)
        daily_min == Get(daily, "temperature_2m_min", <<>>)
        daily_precip == Get(daily, "precipitation_sum", <<>>)
        daily_wind_max == Get(daily, "wind_speed_10m_max", <<>>)
        daily_wind_dir == Get(daily, "wind_direction_10m_dominant", <<>>)
        richting == [i \in 1..Len(daily_wind_dir) |-> direction_to_text(daily_wind_dir[i])]
    IN  IF SameLength(<<Len(daily_times), Len(daily_max), Len(daily_min),
                        Len(daily_precip), Len(daily_wind_max), Len(richting)>>)
        THEN [raised |-> FALSE,
              rows |-> [i \in 1..Len(daily_times) |->
                          [Datum |-> daily_times[i], Max |-> daily_max[i],
                           Min |-> daily_min[i], Neerslag |-> daily_precip[i],
                           MaxWind |-> daily_wind_max[i], Windrichting |-> richting[i]]]]
        ELSE [raised |-> TRUE, rows |-> <<>>]

\* if daily_wind_max: the wind bar chart, else the not-available notice
WindElement(daily) ==
    IF Len(Get(daily, "wind_speed_10m_max", <<>>)) > 0 THEN "bar_wind" ELSE "wind_info"


-----------------------------------------------------------------------------
(* main: one script run from the fetch on (lines 119-339) *)

\* if not data: None and {} are both falsy
NotData(d) == d = None \/ DOMAIN d = {}

\* What a script run leaves on the page and in its locals, given what the
\* fetch returned.  An uncaught exception ends the run where it is raised
\* and Streamlit shows it in place of the rest of the page.
Render(d) ==
    IF NotData(d)
    THEN [current |-> EmptyDict, metrics |-> NoMetrics, df_hourly |-> <<>>,
          df_daily |-> <<>>, exception |-> "none",
          rendered |-> {"header", "button"} \cup (IF d = None THEN {"error"} ELSE {})]
    ELSE
    LET cur == Normalize(CurrentSection(d))
        hourly == Get(d, "hourly", EmptyDict)
        daily == Get(d, "daily", EmptyDict)
        top == {"header", "button", "sidebar", "metrics", "tabs"}
        hf == HourlyFrame(hourly)
        cf == HourlyChartFrame(hourly)
        df == DailyFrame(daily)
    IN  IF hf.raised
        THEN [current |-> cur, metrics |-> ReadCurrent(cur), df_hourly |-> <<>>,
              df_daily |-> <<>>, exception |-> "ValueError", rendered |-> top]
        ELSE IF cf.raised
        THEN [current |-> cur, metrics |-> ReadCurrent(cur), df_hourly |-> hf.rows,
              df_daily |-> <<>>, exception |-> "ValueError",
              rendered |-> top \cup {"df_hourly"}]
        ELSE IF df.raised
        THEN [current |-> cur, metrics |-> ReadCurrent(cur), df_hourly |-> hf.rows,
              df_daily |-> <<>>, exception |-> "ValueError",
              rendered |-> top \cup {"df_hourly", "chart_hourly"}]
        ELSE [current |-> cur, metrics |-> ReadCurrent(cur), df_hourly |-> hf.rows,
              df_daily |-> df.rows, exception |-> "none",
              rendered |-> top \cup {"df_hourly", "chart_hourly", "df_daily",
                                     "bar_temp", WindElement(daily), "map",
                                     "coords", "radar", "footer"}]

\* The page of a run whose fetch raised.
Aborted ==
    [current |-> EmptyDict, metrics |-> NoMetrics, df_hourly |-> <<>>,
     df_daily |-> <<>>, exception |-> "RequestException",
     rendered |-> {"header", "button", "error"}]

\* A script run in which the refresh button is not pressed: main from line 119
\* on, with the fetch for the fixed coordinates.
ScriptRun(response) ==
    /\ runs < MaxRuns
    /\ \E f \in {fetch_weather_data(VENLO_LAT, VENLO_LON, response)} :
       \E page \in {IF f.raised THEN Aborted ELSE Render(f.value)} :
           /\ cache' = f.store
           /\ data' = f.value
           /\ current' = page.current
           /\ metrics' = page.metrics
           /\ df_hourly' = page.df_hourly
           /\ df_daily' = page.df_daily
           /\ rendered' = page.rendered
           /\ exception' = page.exception
           /\ netOutcome' = f.network
           /\ netCalls' = IF f.network # "none" THEN netCalls + 1 ELSE netCalls
           /\ lastNetTime' = IF f.network # "none" THEN now ELSE lastNetTime
           /\ lastNetValue' = IF f.network # "none" THEN f.value ELSE lastNetValue
           /\ refreshedSince' = IF f.network # "none" THEN FALSE ELSE refreshedSince
    /\ runs' = runs + 1
    /\ viaRefresh' = rerun
    /\ rerun' = FALSE
    /\ UNCHANGED now

\* A script run in which the refresh button is pressed (lines 113-117): the
\* cache is cleared and st.rerun() ends this run; the page of the run before
\* stays until the rerun replaces it.
RefreshRun ==
    /\ ~rerun
    /\ cache' = CacheClear
    /\ rerun' = TRUE
    /\ refreshedSince' = TRUE
    /\ UNCHANGED <<now, data, current, metrics, df_hourly, df_daily, rendered,
                   exception, netOutcome, netCalls, runs, lastNetTime,
                   lastNetValue, viaRefresh>>

\* Time passes.
Tick ==
    /\ now + ClockStep <= MaxTime
    /\ now' = now + ClockStep
    /\ UNCHANGED <<cache, rerun, data, current, metrics, df_hourly, df_daily,
                   rendered, exception, netOutcome, netCalls, runs, lastNetTime,
                   lastNetValue, refreshedSince, viaRefresh>>

\* The process has started and no script run has happened yet.
Init ==
    /\ now = 0
    /\ cache = {}
    /\ rerun = FALSE
    /\ data = None
    /\ current = EmptyDict
    /\ metrics = NoMetrics
    /\ df_hourly = <<>>
    /\ df_daily = <<>>
    /\ rendered = {}
    /\ exception = "none"
    /\ netOutcome = "none"
    /\ netCalls = 0
    /\ runs = 0
    /\ lastNetTime = -1
    /\ lastNetValue = None
    /\ refreshedSince = FALSE
    /\ viaRefresh = FALSE


-----------------------------------------------------------------------------
(* What the upstream API answers with *)

Digit(k) == <<"0", "1", "2", "3", "4", "5", "6", "7", "8", "9">>[k + 1]

\* The date of day number day (1, 2, ...) of the forecast: "2024-06-DD"
DateStamp(day) ==
    <<"2", "0", "2", "4", "-", "0", "6", "-", Digit(day \div 10), Digit(day % 10)>>

\* The ISO timestamp of the i-th hour of the forecast: "2024-06-DDTHH:00"
Timestamp(i) ==
    LET hour == (i - 1) % 24
    IN  DateStamp((i - 1) \div 24 + 1)
        \o <<"T", Digit(hour \div 10), Digit(hour % 10), ":", "0", "0">>

\* An hourly section whose arrays all have n entries, each entry telling its
\* position; precipitation_probability is there or not.
HourlySection(n, hasPrecip) ==
    LET base == [time |-> [i \in 1..n |-> Timestamp(i)],
                 temperature_2m |-> [i \in 1..n |-> i],
                 wind_speed_10m |-> [i \in 1..n |-> 2 * i],
                 wind_direction_10m |-> [i \in 1..n |-> (45 * i) % 1440]]
    IN  IF hasPrecip
        THEN Put(base, "precipitation_probability", [i \in 1..n |-> i % 101])
        ELSE base

WindModes == {"full", "empty", "absent"}

\* A daily section of n days; wind_speed_10m_max is full, empty or not there.
DailySection(n, wind) ==
    LET base == [time |-> [i \in 1..n |-> DateStamp(i)],
                 temperature_2m_max |-> [i \in 1..n |-> 20 + i],
                 temperature_2m_min |-> [i \in 1..n |-> i],
                 precipitation_sum |-> [i \in 1..n |-> 3 * i],
                 wind_direction_10m_dominant |-> [i \in 1..n |-> (360 * i) % 1440]]
    IN  IF wind = "full" THEN Put(base, "wind_speed_10m_max", [i \in 1..n |-> 10 + i])
        ELSE IF wind = "empty" THEN Put(base, "wind_speed_10m_max", <<>>)
        ELSE base

\* A current section in the modern convention.
ModernCurrent(temp, bearing) ==
    [temperature_2m |-> temp, relative_humidity_2m |-> 60, wind_speed_10m |-> 12,
     wind_direction_10m |-> bearing, weather_code |-> 3]

\* The answers the API gives over time: version v of a well-formed forecast.
SamplePayload(v) ==
    [current |-> ModernCurrent(10 + v, 360), hourly |-> HourlySection(3, TRUE),
     daily |-> DailySection(2, "full")]

LifecycleResponses ==
    {Failure, Success(EmptyDict)} \cup {Success(SamplePayload(v)) : v \in 1..MaxVersion}

\* Forecasts of every hourly and daily length, with and without the optional
\* arrays.
ProjectionResponses ==
    {Success([current |-> ModernCurrent(15, 360), hourly |-> HourlySection(n, p),
              daily |-> DailySection(d, w)]) :
        n \in 0..MaxHourly, p \in BOOLEAN, d \in 0..MaxDaily, w \in WindModes}

\* Forecasts whose current wind bearing is any quarter degree.
DirectionResponses ==
    {Success([current |-> ModernCurrent(15, b), hourly |-> HourlySection(2, TRUE),
              daily |-> DailySection(2, "full")]) : b \in 0..MaxBearing}

LegacyFields == {"temperature", "windspeed", "winddirection", "weathercode"}

\* Every current-conditions record with no modern field and any subset of the
\* legacy fields.
LegacyRecords ==
    UNION {[S -> 0..MaxLegacyValue] : S \in SUBSET LegacyFields}

NormalizerResponses ==
    {Success([current_weather |-> cur, hourly |-> HourlySection(2, TRUE),
              daily |-> DailySection(2, "full")]) : cur \in LegacyRecords}

-----------------------------------------------------------------------------
(* Specifications *)

\* The dashboard over time: script runs, refreshes and the clock.
Next ==
    \/ \E response \in LifecycleResponses : ScriptRun(response)
    \/ RefreshRun
    \/ Tick

Spec == Init /\ [][Next]_vars

\* One script run on a cold cache, over every shape of hourly and daily section.
NextProjection == runs = 0 /\ \E response \in ProjectionResponses : ScriptRun(response)

SpecProjection == Init /\ [][NextProjection]_vars

\* One script run on a cold cache, over every current wind bearing.
NextDirection == runs = 0 /\ \E response \in DirectionResponses : ScriptRun(response)

SpecDirection == Init /\ [][NextDirection]_vars

\* One script run on a cold cache, over every legacy current-conditions record.
NextNormalizer == runs = 0 /\ \E response \in NormalizerResponses : ScriptRun(response)

SpecNormalizer == Init /\ [][NextNormalizer]_vars


-----------------------------------------------------------------------------
(* Claims about the weather client and the script's life cycle (Spec) *)

\* C1: a fetch made less than 600 s after the latest fetch that went to the
\* network, with no refresh in between, issues no HTTP request and returns
\* exactly what that earlier fetch returned.
C1_FreshFetchIsCacheRead ==
    [][(/\ runs' = runs + 1
        /\ lastNetTime >= 0
        /\ ~refreshedSince
        /\ now - lastNetTime < 600)
       => (/\ netCalls' = netCalls
           /\ netOutcome' = "none"
           /\ data' = lastNetValue)]_vars

\* C1 witness: two script runs, the second later than the first and inside
\* the window, one HTTP request, and the second run got the first one's forecast.
C1_Witness ==
    /\ runs = 2
    /\ netCalls = 1
    /\ netOutcome = "none"
    /\ ~refreshedSince
    /\ lastNetTime >= 0
    /\ now > lastNetTime
    /\ now - lastNetTime < 600
    /\ data # None
    /\ data = lastNetValue

\* C2: the first fetch after a refresh (clear() and rerun) always issues a new
\* HTTP request, however recent the fetch before it.
C2_RefreshForcesRequest ==
    [][(rerun /\ runs' = runs + 1)
       => (netCalls' = netCalls + 1 /\ netOutcome' # "none")]_vars

\* C2 witness: the rerun after a refresh went to the network although the
\* request before it was made in the same 600 s.
C2_Witness ==
    /\ viaRefresh
    /\ netCalls = 2
    /\ netOutcome = "ok"
    /\ now < 600

\* C3: when the HTTP request fails, the fetch raises nothing, reports the error
\* and returns None, and main returns without normalizing, projecting or
\* rendering anything further.
C3_FailureSkipsRendering ==
    netOutcome = "failed" =>
        /\ exception = "none"
        /\ data = None
        /\ rendered = {"header", "button", "error"}
        /\ DOMAIN current = {}
        /\ metrics = NoMetrics
        /\ Len(df_hourly) = 0
        /\ Len(df_daily) = 0

\* C3 witness: a failed request in a run that follows a successful one.
C3_Witness ==
    /\ netOutcome = "failed"
    /\ netCalls = 2
    /\ lastNetValue = None
    /\ "error" \in rendered

\* C10: after a failed fetch has returned None, every further fetch inside the
\* 600 s window with no refresh in between issues no HTTP request and yields
\* None again, so the page shows only the error, whatever the API would answer.
C10_FailureIsMemoized ==
    [][(/\ runs' = runs + 1
        /\ lastNetTime >= 0
        /\ lastNetValue = None
        /\ ~refreshedSince
        /\ now - lastNetTime < 600)
       => (/\ netCalls' = netCalls
           /\ netOutcome' = "none"
           /\ data' = None
           /\ rendered' = {"header", "button", "error"})]_vars

\* C10 witness: a later run inside the window served the memoized failure.
C10_Witness ==
    /\ runs = 2
    /\ netCalls = 1
    /\ netOutcome = "none"
    /\ data = None
    /\ lastNetValue = None
    /\ now > lastNetTime
    /\ now - lastNetTime < 600
    /\ rendered = {"header", "button", "error"}


-----------------------------------------------------------------------------
(* Claims about the tabular projection (SpecProjection) *)

\* C4: with no wind-maximum array (absent or empty) and the other daily arrays
\* holding one entry per day, the daily table still has one row per day, its
\* wind maximum is marked unavailable, no exception is raised, and the notice
\* is shown in place of the wind chart.
C4_DailyWithoutWindMax ==
    (/\ runs = 1
     /\ "precipitation_probability" \in DOMAIN data.hourly
     /\ Len(data.daily.time) >= 1
     /\ Len(Get(data.daily, "wind_speed_10m_max", <<>>)) = 0)
    => (/\ exception = "none"
        /\ "df_daily" \in rendered
        /\ Len(df_daily) = Len(data.daily.time)
        /\ \A i \in 1..Len(df_daily) : df_daily[i].MaxWind = Unknown
        /\ "wind_info" \in rendered
        /\ "bar_wind" \notin rendered)

\* C5: with no precipitation_probability array and n entries in the other
\* hourly arrays, the hourly table is built without failure, has min(48, n)
\* rows, and every precipitation value is unknown.
C5_MissingPrecipitationLinesUp ==
    (/\ runs = 1
     /\ "precipitation_probability" \notin DOMAIN data.hourly)
    => (/\ "df_hourly" \in rendered
        /\ Len(df_hourly) = Min(48, Len(data.hourly.time))
        /\ \A i \in 1..Len(df_hourly) : df_hourly[i].Neerslag = Unknown)

\* C6: when all hourly arrays have n entries, the hourly table has exactly
\* min(48, n) rows, and row i is made of the i-th upstream entries.
C6_HourlyIsPrefix ==
    (/\ runs = 1
     /\ "precipitation_probability" \in DOMAIN data.hourly)
    => LET h == data.hourly
           m == IF Len(h.time) < 48 THEN Len(h.time) ELSE 48
       IN  /\ "df_hourly" \in rendered
           /\ Len(df_hourly) = m
           /\ \A i \in 1..m :
                /\ df_hourly[i].Datum = SubSeq(h.time[i], 1, 10)
                /\ df_hourly[i].Tijd = SubSeq(h.time[i], 12, 16)
                /\ df_hourly[i].Temp = h.temperature_2m[i]
                /\ df_hourly[i].Wind = h.wind_speed_10m[i]
                /\ df_hourly[i].Windrichting = direction_to_text(h.wind_direction_10m[i])
                /\ df_hourly[i].Neerslag = h.precipitation_probability[i]

\* C6 witness: 72 upstream entries gave 48 rows.
C6_Witness ==
    /\ runs = 1
    /\ "precipitation_probability" \in DOMAIN data.hourly
    /\ Len(data.hourly.time) = 72
    /\ Len(df_hourly) = 48
    /\ df_hourly[48].Temp = 48

-----------------------------------------------------------------------------
(* Claims about the bearing lookup (SpecDirection) *)

CompassLabels == {"N", "NNO", "NO", "ONO", "O", "OZO", "ZO", "ZZO",
                  "Z", "ZZW", "ZW", "WZW", "W", "WNW", "NW", "NNW"}

\* C7: a bearing of exactly 11.25 degrees (45 quarter degrees) maps to the
\* second compass point, NNO.
C7_TieGoesToSecondPoint ==
    (runs = 1 /\ metrics.wind_dir = 45) => metrics.wind_text = "NNO"

\* C8: every bearing b in [0, 360) maps to one of the 16 labels, b + 360 maps
\* to the same label as b, and 348.75 through 360 map to N.
C8_PeriodicOverSixteenLabels ==
    runs = 1 =>
        LET b == metrics.wind_dir
        IN  /\ metrics.wind_text \in CompassLabels
            /\ (b < 1440 => direction_to_text(b + 1440) = metrics.wind_text)
            /\ (b >= 1395 /\ b <= 1440 => metrics.wind_text = "N")

\* C8 witness: the tie bearing 348.75 degrees was looked up and wrapped to N.
C8_Witness ==
    /\ runs = 1
    /\ metrics.wind_dir = 1395
    /\ metrics.wind_text = "N"

-----------------------------------------------------------------------------
(* Claims about the shape normalizer (SpecNormalizer) *)

\* C9: for every legacy record, normalization completes and the canonical
\* values read afterwards are the legacy values of the fields that are
\* present, zero for the missing ones, and humidity is unknown.
C9_LegacyFieldsCarriedOver ==
    runs = 1 =>
        LET legacy == data.current_weather
        IN  /\ exception = "none"
            /\ metrics.temp = Get(legacy, "temperature", 0)
            /\ metrics.wind_speed = Get(legacy, "windspeed", 0)
            /\ metrics.wind_dir = Get(legacy, "winddirection", 0)
            /\ metrics.weather_code = Get(legacy, "weathercode", 0)
            /\ Get(current, "relative_humidity_2m", Unknown) = Unknown

=============================================================================
